---- MODULE Spec2Model ----
(***************************************************************************)
(* Ticket triage pipeline of the TelcoCare web application.                *)
(*                                                                         *)
(*   POST /api/llm-judge   (web/src/app/api/llm-judge/route.ts)            *)
(*     validate -> translate -> classify -> judge -> flat response         *)
(*   translationClient, geminiClient, mlServiceClient                      *)
(*   saveTicketResult / sendChatMessage (web/src/lib/supabase-client.ts)   *)
(*                                                                         *)
(* JavaScript values are records carrying their typeof in "type".  The     *)
(* request text is kept as its lengths: the whitespace characters around   *)
(* the trimmed core, and the core itself.                                  *)
(***************************************************************************)
EXTENDS Integers, Sequences, FiniteSets, TLC

VARIABLES
    pc,                 \* position of the route handler
    method,             \* HTTP method of the request
    origin,             \* "http": any client; "chat": sendChatMessage's fetch
    body,               \* what request.json() yields (or that it throws)
    clock,              \* Date.now()
    pipelineStartTime,  \* route.ts:48
    startTime,          \* startTime of the client call in flight
    calls,              \* remote capability calls issued, in order, with arguments
    stages,             \* state of each client promise
    translationResult,  \* route.ts:74
    mlResponse,         \* route.ts:90
    llmResult,          \* route.ts:109
    response,           \* the NextResponse returned by POST
    thrown,             \* an exception left POST
    datastore,          \* Supabase: availability and inserted rows
    sink,               \* saveTicketResult invocation
    chat,               \* sendChatMessage promise
    invocations,        \* concurrent POST invocations: position, request, locals
    container,          \* ChatContainer: React state and the calls in flight
    analytics           \* analytics GET: query parameters, queries, response

vars == <<pc, method, origin, body, clock, pipelineStartTime, startTime, calls, stages,
          translationResult, mlResponse, llmResult, response, thrown,
          datastore, sink, chat, invocations, container, analytics>>

----------------------------------------------------------------------------
(* Bounds of the model *)

\* texts carry 0..Slack whitespace characters and a core that is empty, one
\* character, or within Slack of MaxTextLength
Slack == 1
\* the time an await may take, in ms
MaxTick == 1
\* longest keywords array a judgment reply carries
MaxKeywords == 11

(* Program constants *)
MaxTextLength == 10000
MinKeywords == 5
MaxSchemaKeywords == 10

----------------------------------------------------------------------------
(* JavaScript values *)

Undef == [type |-> "undefined"]
Null == [type |-> "null"]
Bool(b) == [type |-> "boolean", value |-> b]
Num(n) == [type |-> "number", value |-> n]
Str(s) == [type |-> "string", value |-> s]
Arr(items) == [type |-> "array", items |-> items]
\* a text of pad whitespace characters around a trimmed core of core characters
Text(pad, core) == [type |-> "string", pad |-> pad, core |-> core]
\* an object with the two keys validateRequest reads
Obj(text, ticket_id) == [type |-> "object", text |-> text, ticket_id |-> ticket_id]
\* a body request.json() cannot parse
Unparseable == [type |-> "unparseable"]
IsoString(ms) == [type |-> "string", iso |-> ms]

NoValue == [type |-> "none"]

\* String.prototype.length and String.prototype.trim().length of a text
TextLength(t) == t.pad + t.core
TrimLength(t) == t.core

----------------------------------------------------------------------------
(* typeof, truthiness and the || of JavaScript *)

TypeOf(v) == IF v.type \in {"null", "array", "object"} THEN "object" ELSE v.type

Falsy(v) ==
    \/ v.type \in {"undefined", "null"}
    \/ v.type = "boolean" /\ ~v.value
    \/ v.type = "number" /\ v.value = 0
    \/ v.type = "string" /\ "value" \in DOMAIN v /\ v.value = ""
    \/ v.type = "string" /\ "pad" \in DOMAIN v /\ TextLength(v) = 0
    \/ v.type = "string" /\ "chars" \in DOMAIN v /\ v.chars = "empty"

OrElse(v, w) == IF Falsy(v) THEN w ELSE v

\* const { text, ticket_id } = body as Record<string, unknown>
Field(v, name) == IF v.type = "object" /\ name \in DOMAIN v THEN v[name] ELSE Undef

----------------------------------------------------------------------------
(* validateRequest, route.ts:25-45 *)

validateRequest_NoLengthLimit(b) ==
    IF Falsy(b) \/ TypeOf(b) # "object"
    THEN [valid |-> FALSE, error |-> "Request body must be an object"]
    ELSE LET text == Field(b, "text")
             ticket_id == Field(b, "ticket_id")
         IN  IF text.type # "string" \/ TrimLength(text) = 0
             THEN [valid |-> FALSE, error |-> "Text field is required and must be non-empty"]
             ELSE IF ticket_id.type # "undefined" /\ ticket_id.type # "string"
             THEN [valid |-> FALSE, error |-> "ticket_id must be a string if provided"]
             ELSE [valid |-> TRUE, data |-> [text |-> text, ticket_id |-> ticket_id]]

validateRequest(b) ==
    IF Falsy(b) \/ TypeOf(b) # "object"
    THEN [valid |-> FALSE, error |-> "Request body must be an object"]
    ELSE LET text == Field(b, "text")
             ticket_id == Field(b, "ticket_id")
         IN  IF text.type # "string" \/ TrimLength(text) = 0
             THEN [valid |-> FALSE, error |-> "Text field is required and must be non-empty"]
             ELSE IF TextLength(text) > MaxTextLength
             THEN [valid |-> FALSE, error |-> "Text exceeds maximum length of 10,000 characters"]
             ELSE IF ticket_id.type # "undefined" /\ ticket_id.type # "string"
             THEN [valid |-> FALSE, error |-> "ticket_id must be a string if provided"]
             ELSE [valid |-> TRUE, data |-> [text |-> text, ticket_id |-> ticket_id]]

----------------------------------------------------------------------------
(* The error responses POST builds, route.ts:59-66, 78-86, 97-105, 118-126, 175-183 *)

ErrorResponse(status, error, message, stage, now) ==
    [status |-> status,
     body |-> [error |-> Str(error),
               error_message |-> Str(message),
               error_stage |-> Str(stage),
               timestamp |-> IsoString(now)]]

ValidationError(message, now) == ErrorResponse(400, "Validation Error", message, "validation", now)
TranslationError(message, now) == ErrorResponse(503, "Translation Error", message, "translation", now)
MLServiceError(message, now) == ErrorResponse(503, "ML Service Error", message, "ml_service", now)
GeminiError_Status500(message, now) == ErrorResponse(500, "Gemini Error", message, "gemini", now)
GeminiError(message, now) == ErrorResponse(503, "Gemini Error", message, "gemini", now)
InternalError(now) ==
    ErrorResponse(500, "Internal Server Error",
                  "An unexpected error occurred in the pipeline", "processing", now)

\* route.ts:188-191: NextResponse.json({ error, error_message }, { status: 405 })
MethodNotAllowed ==
    [status |-> 405,
     body |-> [error |-> Str("Method Not Allowed"), error_message |-> Str("Use POST method")]]

----------------------------------------------------------------------------
(* TranslationClient.translateToEnglish, translation-client.ts:28-69.       *)
(* reply is what client.translation settles with.  A reply without          *)
(* translation_text makes translatedText.length throw inside the try.       *)

Ok(v) == [ok |-> TRUE, value |-> v]
Fail(message) == [ok |-> FALSE, message |-> message]

translateToEnglish(reply, start, now) ==
    IF reply.kind = "reject" THEN Fail("Translation failed")
    ELSE IF reply.translation_text.type # "string" THEN Fail("Translation failed")
    ELSE Ok([translatedText |-> reply.translation_text,
             processingTimeMs |-> now - start])

----------------------------------------------------------------------------
(* mlServiceClient.predict: the classification adapter.  The cluster table  *)
(* is the static mapping of the ML microservice.                            *)

ClusterTable ==
    [c \in 0..3 |->
        IF c = 3 THEN [urgency |-> "High", priority |-> "P1", auto_escalate |-> TRUE]
        ELSE IF c = 2 THEN [urgency |-> "Medium", priority |-> "P2", auto_escalate |-> FALSE]
        ELSE [urgency |-> "Low", priority |-> "P3", auto_escalate |-> FALSE]]

predict(reply) ==
    IF reply.kind = "reject" THEN Fail("ML service request failed")
    ELSE Ok([prediction |-> [cluster |-> Num(reply.cluster),
                             urgency |-> Str(ClusterTable[reply.cluster].urgency),
                             priority |-> Str(ClusterTable[reply.cluster].priority),
                             confidence |-> Num(reply.confidence),
                             auto_escalate |-> Bool(ClusterTable[reply.cluster].auto_escalate)],
             processing_time_ms |-> reply.processing_time_ms])

----------------------------------------------------------------------------
(* llmJudgmentSchema, gemini-client.ts:32-69 *)

ConfidenceAssessments == {"high", "medium", "low"}
IssueCategories ==
    {"Billing & Payment", "Network & Connectivity", "Technical Support",
     "Account & Service Management", "General Inquiry & Feedback"}
RecommendedActions == {"escalate", "standard", "automated"}
Tones == {"empathetic", "professional", "urgent", "friendly"}

JudgmentFields ==
    {"ml_valid", "ml_confidence_assessment", "issue_category", "reasoning",
     "customer_response", "recommended_action", "tone", "keywords"}

\* z.boolean(), z.string(), z.enum([...]), z.array(z.string()).min(5).max(10)
IsBoolean(v) == v.type = "boolean"
IsString(v) == v.type = "string"
IsEnum(v, allowed) == v.type = "string" /\ v.value \in allowed
IsKeywords(v) ==
    /\ v.type = "array"
    /\ \A i \in 1..Len(v.items) : IsString(v.items[i])
    /\ Len(v.items) >= MinKeywords
    /\ Len(v.items) <= MaxSchemaKeywords

\* a schema that fills in what the reply lacks instead of rejecting it
llmJudgmentSchemaParse_Lenient(v) ==
    IF v.type = "object" /\ IsBoolean(Field(v, "ml_valid"))
    THEN Ok([f \in JudgmentFields |->
                IF f = "keywords" /\ ~IsKeywords(v[f]) THEN Arr(<<>>)
                ELSE IF f # "keywords" /\ f # "ml_valid" /\ ~IsString(v[f]) THEN Str("")
                ELSE v[f]])
    ELSE Fail("ZodError")

\* llmJudgmentSchema.parse(v): the judgment, or a ZodError
llmJudgmentSchemaParse(v) ==
    IF /\ v.type = "object"
       /\ IsBoolean(Field(v, "ml_valid"))
       /\ IsEnum(Field(v, "ml_confidence_assessment"), ConfidenceAssessments)
       /\ IsEnum(Field(v, "issue_category"), IssueCategories)
       /\ IsString(Field(v, "reasoning"))
       /\ IsString(Field(v, "customer_response"))
       /\ IsEnum(Field(v, "recommended_action"), RecommendedActions)
       /\ IsEnum(Field(v, "tone"), Tones)
       /\ IsKeywords(Field(v, "keywords"))
    THEN Ok([f \in JudgmentFields |-> v[f]])
    ELSE Fail("ZodError")

----------------------------------------------------------------------------
(* GeminiClient.judgeAndRespond, gemini-client.ts:168-247.                  *)
(* reply is what ai.models.generateContent settles with; response.text is   *)
(* undefined, the empty string, text that is no JSON, or a JSON document.   *)

EmptyText == [type |-> "string", chars |-> "empty"]
GarbageText == [type |-> "string", chars |-> "garbage"]
JsonText(doc) == [type |-> "string", chars |-> "json", doc |-> doc]

JSONparse(t) == IF t.chars = "json" THEN Ok(t.doc) ELSE Fail("SyntaxError")

judgeAndRespond(reply, start, now) ==
    IF reply.kind = "reject" THEN Fail("Gemini request failed")
    ELSE IF Falsy(reply.text) THEN Fail("No content in Gemini response")
    ELSE LET parsedResponse == JSONparse(reply.text)
         IN  IF ~parsedResponse.ok THEN Fail(parsedResponse.message)
             ELSE LET judgment == llmJudgmentSchemaParse(parsedResponse.value)
                  IN  IF ~judgment.ok THEN Fail(judgment.message)
                      ELSE Ok([judgment |-> judgment.value,
                               processingTimeMs |-> now - start])

----------------------------------------------------------------------------
(* The flat success response, route.ts:129-160 *)

successResponse(text, ticket_id, translation, ml, llm, start, now) ==
              [ticket_id |-> ticket_id,
               ticket_text |-> text,
               ml_cluster |-> ml.prediction.cluster,
               ml_urgency |-> ml.prediction.urgency,
               ml_priority |-> ml.prediction.priority,
               ml_confidence |-> ml.prediction.confidence,
               ml_auto_escalate |-> ml.prediction.auto_escalate,
               llm_ml_valid |-> llm.judgment.ml_valid,
               llm_confidence_assessment |-> llm.judgment.ml_confidence_assessment,
               llm_reasoning |-> llm.judgment.reasoning,
               llm_recommended_action |-> llm.judgment.recommended_action,
               llm_tone |-> llm.judgment.tone,
               customer_response |-> llm.judgment.customer_response,
               translation_processing_time_ms |-> Num(translation.processingTimeMs),
               ml_processing_time_ms |-> OrElse(ml.processing_time_ms, Num(0)),
               llm_processing_time_ms |-> Num(llm.processingTimeMs),
               total_processing_time_ms |-> Num(now - start),
               timestamp |-> IsoString(now)]

\* a POST that awaits saveTicketResult before it answers
SuccessResponse_AwaitsSink(text, ticket_id, translation, ml, llm, start, now) ==
    IF datastore.mode = "ok"
    THEN [status |-> 200,
          body |-> successResponse(text, ticket_id, translation, ml, llm, start, now)]
    ELSE IF datastore.mode = "fail" THEN InternalError(now)
    ELSE NoValue

\* return NextResponse.json(successResponse, { status: 200 }), route.ts:168
SuccessResponse(text, ticket_id, translation, ml, llm, start, now) ==
    [status |-> 200,
     body |-> successResponse(text, ticket_id, translation, ml, llm, start, now)]

----------------------------------------------------------------------------
(* sendChatMessage and getUserFriendlyError, supabase-client.ts:185-255 *)

StrictEq(v, w) == v.type = w.type /\ v = w

ErrorMessages ==
    [validation |-> "Pesan Anda tidak valid. Silakan coba lagi.",
     translation |-> "Gagal memproses pesan. Silakan coba lagi.",
     ml_service |-> "Layanan sedang sibuk. Mohon tunggu sebentar.",
     gemini |-> "Gagal menghasilkan respons. Silakan coba lagi.",
     processing |-> "Terjadi kesalahan saat memproses. Silakan coba lagi."]

Get(data, name) == IF name \in DOMAIN data THEN data[name] ELSE Undef

getUserFriendlyError(error) ==
    LET stage == Get(error, "error_stage")
    IN  IF ~Falsy(stage) /\ stage.value \in DOMAIN ErrorMessages
        THEN ErrorMessages[stage.value]
        ELSE IF ~Falsy(Get(error, "error")) THEN Get(error, "error").value
        ELSE "Terjadi kesalahan. Silakan coba lagi."

isEscalatedByML_IgnoresValidity(apiData) ==
    StrictEq(Get(apiData, "ml_auto_escalate"), Bool(TRUE))

isEscalatedByML(apiData) ==
    /\ StrictEq(Get(apiData, "ml_auto_escalate"), Bool(TRUE))
    /\ StrictEq(Get(apiData, "llm_ml_valid"), Bool(TRUE))

isEscalatedByLLM(apiData) ==
    StrictEq(Get(apiData, "llm_recommended_action"), Str("escalate"))

isEscalated(apiData) == isEscalatedByML(apiData) \/ isEscalatedByLLM(apiData)

escalationReason(apiData) == IF isEscalatedByML(apiData) THEN "ml" ELSE "llm"

\* variant: the fallbacks apply only to undefined fields (?? instead of ||)
ChatApiResponse_NullishFallback(apiData) ==
    [response |-> Get(apiData, "customer_response"),
     escalation |->
        IF isEscalated(apiData)
        THEN [type |-> "object",
              triggered |-> TRUE,
              urgency |-> IF Get(apiData, "ml_urgency") = Undef THEN Str("High")
                          ELSE Get(apiData, "ml_urgency"),
              priority |-> IF Get(apiData, "ml_priority") = Undef THEN Str("P1")
                           ELSE Get(apiData, "ml_priority"),
              reason |-> escalationReason(apiData)]
        ELSE Undef]

ChatApiResponse(apiData) ==
    [response |-> Get(apiData, "customer_response"),
     escalation |->
        IF isEscalated(apiData)
        THEN [type |-> "object",
              triggered |-> TRUE,
              urgency |-> OrElse(Get(apiData, "ml_urgency"), Str("High")),
              priority |-> OrElse(Get(apiData, "ml_priority"), Str("P1")),
              reason |-> escalationReason(apiData)]
        ELSE Undef]

ResponseOk(r) == r.status >= 200 /\ r.status <= 299

sendChatMessageResult(r) ==
    IF ~ResponseOk(r) \/ "error" \in DOMAIN r.body
    THEN [state |-> "thrown", message |-> getUserFriendlyError(r.body)]
    ELSE [state |-> "returned", value |-> ChatApiResponse(r.body)]

----------------------------------------------------------------------------
(* Inputs: request bodies and the replies of the remote capabilities *)

Pads == 0..Slack
CoreLengths == {0, 1, MaxTextLength - Slack, MaxTextLength, MaxTextLength + Slack}
Texts == {Text(p, c) : p \in Pads, c \in CoreLengths}

TextFields == {Undef, Num(42)} \cup Texts
TicketIdFields == {Undef, Str("TKT-12345"), Num(7)}

HttpBodies ==
    {Unparseable, Null, Num(42), Str("text"), Arr(<<>>)}
        \cup {Obj(t, i) : t \in TextFields, i \in TicketIdFields}

\* body: JSON.stringify({ text, ticket_id: crypto.randomUUID() }), supabase-client.ts:192-195
ChatBodies == {Obj(t, Str("uuid")) : t \in Texts}

TranslationReplies ==
    {[kind |-> "reject"]}
        \cup {[kind |-> "resolve", translation_text |-> t] :
                t \in {Undef, Str(""), Str("Internet is completely down")}}

MLReplies ==
    {[kind |-> "reject"]}
        \cup {[kind |-> "resolve", cluster |-> c, confidence |-> 99,
               processing_time_ms |-> Num(15)] : c \in DOMAIN ClusterTable \ {0}}
        \cup {[kind |-> "resolve", cluster |-> 0, confidence |-> 99,
               processing_time_ms |-> Undef]}

KeywordWords ==
    <<"internet mati", "tagihan salah", "modem", "router", "kecewa", "sinyal hilang",
      "indihome", "fiber", "lambat", "gangguan", "teknisi", "pulsa", "kuota">>

Keywords(n) == Arr([i \in 1..n |-> Str(KeywordWords[((i - 1) % Len(KeywordWords)) + 1])])

Judgment(valid, action, n) ==
    [type |-> "object",
     ml_valid |-> Bool(valid),
     ml_confidence_assessment |-> Str("high"),
     issue_category |-> Str("Network & Connectivity"),
     reasoning |-> Str("Outage reported, High/P1 fits"),
     customer_response |-> Str("Mohon maaf atas gangguan yang Anda alami"),
     recommended_action |-> Str(action),
     tone |-> Str("empathetic"),
     keywords |-> Keywords(n)]

ValidJudgmentDocs ==
    {Judgment(v, a, MinKeywords) : v \in BOOLEAN, a \in RecommendedActions}
        \cup {Judgment(TRUE, "standard", MaxSchemaKeywords)}

KeywordCountDocs == {Judgment(TRUE, "standard", n) : n \in 0..MaxKeywords}

\* keyword lists of schema length holding a one-character entry, an entry of
\* more than 50 characters, and the same entry twice
OddKeywordLists ==
    { <<"x", "tagihan salah", "modem", "router", "kecewa">>,
      <<"internet mati sejak kemarin pagi dan belum juga pulih", "tagihan salah", "modem",
        "router", "kecewa">>,
      <<"modem", "tagihan salah", "modem", "router", "kecewa">> }

OddKeywordDocs ==
    {[Judgment(TRUE, "standard", MinKeywords) EXCEPT
         !.keywords = Arr([i \in DOMAIN l |-> Str(l[i])])] : l \in OddKeywordLists}

BadFieldValues == {Undef, Str("other"), Arr(<<Num(1), Num(2), Num(3), Num(4), Num(5)>>)}

FaultyJudgmentDocs ==
    {[Judgment(TRUE, "standard", MinKeywords) EXCEPT ![f] = bad] :
        f \in JudgmentFields, bad \in BadFieldValues}

GeminiReplies ==
    {[kind |-> "reject"]}
        \cup {[kind |-> "resolve", text |-> t] : t \in {Undef, EmptyText, GarbageText}}
        \cup {[kind |-> "resolve", text |-> JsonText(doc)] :
                doc \in ValidJudgmentDocs \cup KeywordCountDocs \cup OddKeywordDocs
                            \cup FaultyJudgmentDocs
                            \cup {Null, Num(1), Arr(<<>>)}}

DatastoreModes == {"ok", "fail", "hang"}

\* an await takes no measurable time, or MaxTick ms
Ticks == {0, MaxTick}

----------------------------------------------------------------------------
(* State after a request has reached POST *)

Init ==
    /\ method \in {"POST", "GET"}
    /\ origin \in IF method = "GET" THEN {"http"} ELSE {"http", "chat"}
    /\ body \in IF method = "GET" THEN {NoValue}
                ELSE IF origin = "chat" THEN ChatBodies ELSE HttpBodies
    /\ pc = "received"
    /\ clock = 0
    /\ pipelineStartTime = 0
    /\ startTime = 0
    /\ calls = <<>>
    /\ stages = [translation |-> "idle", ml_service |-> "idle", gemini |-> "idle"]
    /\ translationResult = NoValue
    /\ mlResponse = NoValue
    /\ llmResult = NoValue
    /\ response = NoValue
    /\ thrown = FALSE
    /\ datastore \in {[mode |-> m, ticket_results |-> <<>>, ticket_keywords |-> <<>>] :
                        m \in DatastoreModes}
    /\ sink = [state |-> "idle"]
    /\ chat = IF origin = "chat" THEN [state |-> "pending"] ELSE NoValue
    /\ invocations = NoValue
    /\ container = NoValue
    /\ analytics = NoValue

\* validation.data of the request in hand
Data == validateRequest(body).data

----------------------------------------------------------------------------
(* POST, route.ts:47-185, one action per continuation *)

\* POST_Validate without the outer try/catch around request.json()
POST_Validate_NoOuterCatch ==
    /\ pc = "received"
    /\ method = "POST"
    /\ IF body.type = "unparseable"
       THEN /\ thrown' = TRUE
            /\ pc' = "done"
            /\ UNCHANGED <<calls, stages, startTime, response>>
       ELSE IF ~validateRequest(body).valid
       THEN /\ response' = ValidationError(validateRequest(body).error, clock)
            /\ pc' = "done"
            /\ UNCHANGED <<calls, stages, startTime, thrown>>
       ELSE /\ calls' = Append(calls, [stage |-> "translation",
                                       text |-> Data.text, ticket_id |-> Data.ticket_id])
            /\ stages' = [stages EXCEPT !.translation = "pending"]
            /\ startTime' = clock
            /\ pc' = "translating"
            /\ UNCHANGED <<response, thrown>>
    /\ UNCHANGED <<invocations, container, analytics,
                   method, origin, body, clock, pipelineStartTime, translationResult, mlResponse,
                   llmResult, datastore, sink, chat>>

\* route.ts:50-76: request.json(), validateRequest, the call of translateToEnglish
POST_Validate ==
    /\ pc = "received"
    /\ method = "POST"
    /\ IF body.type = "unparseable"
       THEN /\ response' = InternalError(clock)
            /\ pc' = "done"
            /\ UNCHANGED <<calls, stages, startTime>>
       ELSE IF ~validateRequest(body).valid
       THEN /\ response' = ValidationError(validateRequest(body).error, clock)
            /\ pc' = "done"
            /\ UNCHANGED <<calls, stages, startTime>>
       ELSE /\ calls' = Append(calls, [stage |-> "translation",
                                       text |-> Data.text, ticket_id |-> Data.ticket_id])
            /\ stages' = [stages EXCEPT !.translation = "pending"]
            /\ startTime' = clock
            /\ pc' = "translating"
            /\ UNCHANGED response
    /\ UNCHANGED <<invocations, container, analytics,
                   method, origin, body, clock, pipelineStartTime, translationResult, mlResponse,
                   llmResult, thrown, datastore, sink, chat>>

\* POST_Translated whose catch falls back to the untranslated text and goes on
POST_Translated_FallsThrough(reply, d) ==
    /\ pc = "translating"
    /\ clock' = clock + d
    /\ LET r == translateToEnglish(reply, startTime, clock')
           result == IF r.ok THEN r.value
                     ELSE [translatedText |-> Str("untranslated"), processingTimeMs |-> 0]
       IN  /\ stages' = [stages EXCEPT
                            !.translation = IF r.ok THEN "resolved" ELSE "rejected",
                            !.ml_service = "pending"]
           /\ translationResult' = result
           /\ calls' = Append(calls, [stage |-> "ml_service",
                                      text |-> result.translatedText,
                                      ticket_id |-> Data.ticket_id])
           /\ pc' = "classifying"
           /\ UNCHANGED response
    /\ UNCHANGED <<invocations, container, analytics,
                   method, origin, body, pipelineStartTime, startTime, mlResponse, llmResult,
                   thrown, datastore, sink, chat>>

\* variant: predict is called with the request's text instead of the translation
POST_Translated_SendsOriginal(reply, d) ==
    /\ pc = "translating"
    /\ clock' = clock + d
    /\ LET r == translateToEnglish(reply, startTime, clock')
       IN  IF ~r.ok
           THEN /\ stages' = [stages EXCEPT !.translation = "rejected"]
                /\ response' = TranslationError(r.message, clock')
                /\ pc' = "done"
                /\ UNCHANGED <<calls, translationResult>>
           ELSE /\ stages' = [stages EXCEPT !.translation = "resolved",
                                            !.ml_service = "pending"]
                /\ translationResult' = r.value
                /\ calls' = Append(calls, [stage |-> "ml_service", text |-> Data.text,
                                           ticket_id |-> Data.ticket_id])
                /\ pc' = "classifying"
                /\ UNCHANGED response
    /\ UNCHANGED <<invocations, container, analytics,
                   method, origin, body, pipelineStartTime, startTime, mlResponse, llmResult,
                   thrown, datastore, sink, chat>>

\* route.ts:76-95: translateToEnglish settles; on success predict is called
POST_Translated(reply, d) ==
    /\ pc = "translating"
    /\ clock' = clock + d
    /\ LET r == translateToEnglish(reply, startTime, clock')
       IN  IF ~r.ok
           THEN /\ stages' = [stages EXCEPT !.translation = "rejected"]
                /\ response' = TranslationError(r.message, clock')
                /\ pc' = "done"
                /\ UNCHANGED <<calls, translationResult>>
           ELSE /\ stages' = [stages EXCEPT !.translation = "resolved",
                                            !.ml_service = "pending"]
                /\ translationResult' = r.value
                /\ calls' = Append(calls, [stage |-> "ml_service",
                                           text |-> r.value.translatedText,
                                           ticket_id |-> Data.ticket_id])
                /\ pc' = "classifying"
                /\ UNCHANGED response
    /\ UNCHANGED <<invocations, container, analytics,
                   method, origin, body, pipelineStartTime, startTime, mlResponse, llmResult,
                   thrown, datastore, sink, chat>>

\* POST_Classified whose catch substitutes a default prediction and goes on
POST_Classified_FallsThrough(reply, d) ==
    /\ pc = "classifying"
    /\ clock' = clock + d
    /\ LET r == predict(reply)
           result == IF r.ok THEN r.value
                     ELSE [prediction |-> [cluster |-> Num(0), urgency |-> Str("Low"),
                                           priority |-> Str("P3"), confidence |-> Num(0),
                                           auto_escalate |-> Bool(FALSE)],
                           processing_time_ms |-> Undef]
       IN  /\ stages' = [stages EXCEPT
                            !.ml_service = IF r.ok THEN "resolved" ELSE "rejected",
                            !.gemini = "pending"]
           /\ mlResponse' = result
           /\ calls' = Append(calls, [stage |-> "gemini",
                                      originalText |-> Data.text,
                                      translatedText |-> translationResult.translatedText,
                                      mlPrediction |-> result.prediction,
                                      ticket_id |-> Data.ticket_id])
           /\ startTime' = clock'
           /\ pc' = "judging"
           /\ UNCHANGED response
    /\ UNCHANGED <<invocations, container, analytics,
                   method, origin, body, pipelineStartTime, translationResult, llmResult,
                   thrown, datastore, sink, chat>>

\* route.ts:92-116: predict settles; on success judgeAndRespond is called
POST_Classified(reply, d) ==
    /\ pc = "classifying"
    /\ clock' = clock + d
    /\ LET r == predict(reply)
       IN  IF ~r.ok
           THEN /\ stages' = [stages EXCEPT !.ml_service = "rejected"]
                /\ response' = MLServiceError(r.message, clock')
                /\ pc' = "done"
                /\ UNCHANGED <<calls, mlResponse, startTime>>
           ELSE /\ stages' = [stages EXCEPT !.ml_service = "resolved",
                                            !.gemini = "pending"]
                /\ mlResponse' = r.value
                /\ calls' = Append(calls, [stage |-> "gemini",
                                           originalText |-> Data.text,
                                           translatedText |-> translationResult.translatedText,
                                           mlPrediction |-> r.value.prediction,
                                           ticket_id |-> Data.ticket_id])
                /\ startTime' = clock'
                /\ pc' = "judging"
                /\ UNCHANGED response
    /\ UNCHANGED <<invocations, container, analytics,
                   method, origin, body, pipelineStartTime, translationResult, llmResult,
                   thrown, datastore, sink, chat>>

\* variant: a failed judgment is asked for once more before giving up
POST_Judged_RetriesOnce(reply, d) ==
    /\ pc = "judging"
    /\ clock' = clock + d
    /\ LET r == judgeAndRespond(reply, startTime, clock')
           first == Cardinality({i \in DOMAIN calls : calls[i].stage = "gemini"}) = 1
       IN  IF ~r.ok /\ first
           THEN /\ calls' = Append(calls, calls[Len(calls)])
                /\ pc' = "judging"
                /\ UNCHANGED <<stages, response, llmResult>>
           ELSE IF ~r.ok
           THEN /\ stages' = [stages EXCEPT !.gemini = "rejected"]
                /\ response' = GeminiError(r.message, clock')
                /\ pc' = "done"
                /\ UNCHANGED <<llmResult, calls>>
           ELSE /\ stages' = [stages EXCEPT !.gemini = "resolved"]
                /\ llmResult' = r.value
                /\ response' = SuccessResponse(Data.text, Data.ticket_id, translationResult,
                                               mlResponse, r.value, pipelineStartTime, clock')
                /\ pc' = "done"
                /\ UNCHANGED calls
    /\ UNCHANGED <<invocations, container, analytics,
                   method, origin, body, pipelineStartTime, startTime, translationResult,
                   mlResponse, thrown, datastore, sink, chat>>

\* route.ts:111-168: judgeAndRespond settles; on success the flat response is returned
POST_Judged(reply, d) ==
    /\ pc = "judging"
    /\ clock' = clock + d
    /\ LET r == judgeAndRespond(reply, startTime, clock')
       IN  IF ~r.ok
           THEN /\ stages' = [stages EXCEPT !.gemini = "rejected"]
                /\ response' = GeminiError(r.message, clock')
                /\ UNCHANGED llmResult
           ELSE /\ stages' = [stages EXCEPT !.gemini = "resolved"]
                /\ llmResult' = r.value
                /\ response' = SuccessResponse(Data.text, Data.ticket_id, translationResult,
                                               mlResponse, r.value, pipelineStartTime, clock')
    /\ pc' = "done"
    /\ UNCHANGED <<invocations, container, analytics,
                   method, origin, body, pipelineStartTime, startTime, calls, translationResult,
                   mlResponse, thrown, datastore, sink, chat>>

\* supabase-client.ts:198-226: fetch has resolved with POST's response
sendChatMessage_Settle ==
    /\ pc = "done"
    /\ origin = "chat"
    /\ chat.state = "pending"
    /\ response # NoValue
    /\ chat' = sendChatMessageResult(response)
    /\ UNCHANGED <<invocations, container, analytics,
                   pc, method, origin, body, clock, pipelineStartTime, startTime, calls, stages,
                   translationResult, mlResponse, llmResult, response, thrown,
                   datastore, sink>>

\* route.ts:187-193: the handler of the unsupported method
GET ==
    /\ pc = "received"
    /\ method = "GET"
    /\ response' = MethodNotAllowed
    /\ pc' = "done"
    /\ UNCHANGED <<invocations, container, analytics,
                   method, origin, body, clock, pipelineStartTime, startTime, calls, stages,
                   translationResult, mlResponse, llmResult, thrown, datastore, sink, chat>>

Next ==
    \/ POST_Validate
    \/ GET
    \/ pc = "translating" /\ \E reply \in TranslationReplies, d \in Ticks : POST_Translated(reply, d)
    \/ pc = "classifying" /\ \E reply \in MLReplies, d \in Ticks : POST_Classified(reply, d)
    \/ pc = "judging" /\ \E reply \in GeminiReplies, d \in Ticks : POST_Judged(reply, d)
    \/ sendChatMessage_Settle

Spec == Init /\ [][Next]_vars

\* every remote call settles and the runtime runs the continuation that waits
\* for it: a step that is possible is eventually taken
LiveSpec == Spec /\ WF_vars(Next)

----------------------------------------------------------------------------
(* Vocabulary of the properties *)

StageOrder == <<"translation", "ml_service", "gemini">>

Called(stage) == \E i \in 1..Len(calls) : calls[i].stage = stage

Done == pc = "done"

AllStagesSucceeded == \A k \in 1..Len(StageOrder) : stages[StageOrder[k]] = "resolved"

\* the request body carries a text that is empty, blank or too long
TextIsBlankOrTooLong ==
    /\ body.type = "object"
    /\ body.text.type = "string"
    /\ \/ body.text.core = 0
       \/ body.text.pad + body.text.core > 10000

\* the request body is a TicketRequest: { text: non-blank string of at most
\* 10,000 characters, ticket_id?: string }
WellFormedRequest ==
    /\ body.type = "object"
    /\ body.text.type = "string"
    /\ body.text.core > 0
    /\ body.text.pad + body.text.core <= 10000
    /\ body.ticket_id.type \in {"undefined", "string"}

----------------------------------------------------------------------------
\* C1: a POST whose text is empty, whitespace-only or longer than 10,000
\* characters is answered 400 with error_stage validation, and no translation,
\* classification or judgment call is ever issued for it.
C1_InvalidTextIsRejected ==
    TextIsBlankOrTooLong =>
        /\ calls = <<>>
        /\ \A k \in 1..Len(StageOrder) : stages[StageOrder[k]] = "idle"
        /\ pc \in {"received", "done"}
        /\ Done => /\ response.status = 400
                   /\ response.body.error_stage = Str("validation")

C1_Witness ==
    /\ Done
    /\ TextIsBlankOrTooLong
    /\ body.text.core > 0
    /\ body.text.pad + body.text.core > 10000
    /\ response.status = 400

\* C2: fail-fast.  When stage k has failed, no later stage has been or is
\* invoked, and the response is the error tagged with stage k.
C2_FailFast ==
    \A k \in 1..Len(StageOrder) :
        stages[StageOrder[k]] = "rejected" =>
            /\ \A j \in (k + 1)..Len(StageOrder) :
                  ~Called(StageOrder[j]) /\ stages[StageOrder[j]] = "idle"
            /\ Done
            /\ response.body.error_stage = Str(StageOrder[k])

C2_Witness ==
    /\ stages.ml_service = "rejected"
    /\ ~Called("gemini")
    /\ response.body.error_stage = Str("ml_service")

\* C3: the stages are invoked in the order translate, classify, judge, and a
\* stage is invoked only when the stage before it has resolved with a result.
C3_SequentialOrder ==
    /\ Len(calls) <= Len(StageOrder)
    /\ \A i \in 1..Len(calls) : calls[i].stage = StageOrder[i]
    /\ Called("ml_service") =>
          stages.translation = "resolved" /\ translationResult # NoValue
    /\ Called("gemini") =>
          stages.ml_service = "resolved" /\ mlResponse # NoValue
    /\ stages.ml_service # "idle" => Called("ml_service")
    /\ stages.gemini # "idle" => Called("gemini")

C3_Witness ==
    /\ Len(calls) = 3
    /\ stages.gemini = "pending"
    /\ translationResult # NoValue
    /\ mlResponse # NoValue

----------------------------------------------------------------------------
(* sendChatMessage has returned for the request in hand *)

ChatReturned == origin = "chat" /\ chat.state = "returned"

\* the two escalation signals, read off the flat result
MLSignal ==
    response.body.ml_auto_escalate = Bool(TRUE) /\ response.body.llm_ml_valid = Bool(TRUE)
LLMSignal == response.body.llm_recommended_action = Str("escalate")

\* C4: escalation is reported as triggered exactly when (ml_auto_escalate and
\* llm_ml_valid) or llm_recommended_action = escalate; when neither holds no
\* escalation is reported.
C4_TriggeredIff ==
    ChatReturned =>
        LET escalation == chat.value.escalation
        IN  /\ (MLSignal \/ LLMSignal) =>
                  escalation.type = "object" /\ escalation.triggered
            /\ ~(MLSignal \/ LLMSignal) => escalation = Undef

\* auto_escalate=true, ml_valid=false, recommended_action=standard: not triggered
C4_Witness ==
    /\ ChatReturned
    /\ response.body.ml_auto_escalate = Bool(TRUE)
    /\ response.body.llm_ml_valid = Bool(FALSE)
    /\ response.body.llm_recommended_action = Str("standard")
    /\ chat.value.escalation = Undef

\* C5: when escalation is triggered the reason is llm whenever
\* llm_recommended_action = escalate (also when the ML signal holds too), and
\* ml when only the ML signal holds.
C5_ReasonTieBreakLLM ==
    (ChatReturned /\ chat.value.escalation # Undef) =>
        chat.value.escalation.reason = IF LLMSignal THEN "llm" ELSE "ml"

----------------------------------------------------------------------------
(* A judgment reply outside the structured contract of the JudgmentResult:  *)
(* empty, not parseable, no object, a required field missing, an enum value *)
(* outside its fixed set, or fewer than 5 or more than 10 keywords.         *)

EnumOutside(v, allowed) == v.type = "string" /\ v.value \notin allowed

DocViolatesContract(doc) ==
    \/ doc.type # "object"
    \/ /\ doc.type = "object"
       /\ \/ \E f \in {"ml_valid", "ml_confidence_assessment", "issue_category",
                       "reasoning", "customer_response", "recommended_action",
                       "tone", "keywords"} : doc[f] = Undef
          \/ EnumOutside(doc.ml_confidence_assessment, {"high", "medium", "low"})
          \/ EnumOutside(doc.issue_category,
                         {"Billing & Payment", "Network & Connectivity", "Technical Support",
                          "Account & Service Management", "General Inquiry & Feedback"})
          \/ EnumOutside(doc.recommended_action, {"escalate", "standard", "automated"})
          \/ EnumOutside(doc.tone, {"empathetic", "professional", "urgent", "friendly"})
          \/ doc.keywords.type = "array"
                /\ (Len(doc.keywords.items) < 5 \/ Len(doc.keywords.items) > 10)

ReplyViolatesContract(reply) ==
    /\ reply.kind = "resolve"
    /\ \/ reply.text = Undef
       \/ reply.text = EmptyText
       \/ reply.text = GarbageText
       \/ reply.text.type = "string" /\ reply.text.chars = "json"
             /\ DocViolatesContract(reply.text.doc)

\* C6: a judgment reply that is empty, unparseable, lacks a required field,
\* uses an enum value outside the fixed set or carries fewer than 5 or more
\* than 10 keywords makes judgeAndRespond fail: POST answers with the gemini
\* error, keeps no judgment from the reply and produces no success response.
C6_ContractViolationsRejected ==
    [][pc = "judging" =>
          \/ /\ stages'.gemini = "rejected"
             /\ llmResult' = NoValue
             /\ response'.status = 503
             /\ response'.body.error_stage = Str("gemini")
             /\ "customer_response" \notin DOMAIN response'.body
          \/ \A reply \in GeminiReplies :
                ReplyViolatesContract(reply) => ~POST_Judged(reply, clock' - clock)]_vars

C6_Witness ==
    /\ Done
    /\ stages.gemini = "rejected"
    /\ response.status = 503
    /\ response.body.error_stage = Str("gemini")
    /\ response.body.error_message = Str("ZodError")

----------------------------------------------------------------------------
ErrorStages == {"validation", "translation", "ml_service", "gemini", "processing"}

IsSuccessResult(r) ==
    /\ r.status = 200
    /\ "customer_response" \in DOMAIN r.body
    /\ "error" \notin DOMAIN r.body
    /\ "error_stage" \notin DOMAIN r.body

IsStageTaggedError(r) ==
    /\ r.status # 200
    /\ "error_stage" \in DOMAIN r.body
    /\ r.body.error_stage.type = "string"
    /\ r.body.error_stage.value \in ErrorStages
    /\ "customer_response" \notin DOMAIN r.body

\* C7: no exception leaves POST.  Whatever fails (body parsing, validation,
\* a stage), POST ends with one response, which is either a success result or
\* an error carrying an error_stage, never both; the response, once returned,
\* is not replaced.
C7_NeverThrows ==
    /\ [](/\ ~thrown
          /\ Done <=> response # NoValue
          /\ method = "POST" /\ response # NoValue =>
                (IsSuccessResult(response) \/ IsStageTaggedError(response))
                    /\ ~(IsSuccessResult(response) /\ IsStageTaggedError(response)))
    /\ [][response # NoValue => response' = response]_vars

\* request.json() threw, and POST answered
C7_Witness ==
    /\ Done
    /\ body = Unparseable
    /\ ~thrown
    /\ IsStageTaggedError(response)

C9_SinkScheduledOnSuccess ==
    Done =>
        /\ response.status = 200 => sink.state # "idle"
        /\ response.status # 200 => sink.state = "idle"

CallsTo(stage) == {i \in DOMAIN calls : calls[i].stage = stage}

\* C14: no retry.  Each of the three capabilities is called at most once in a
\* run, and once one of them has failed the request has failed: the run is
\* over with an error response and the failed stage is never tried again.
C14_NoRetry ==
    /\ [](\A k \in 1..Len(StageOrder) :
            /\ Cardinality(CallsTo(StageOrder[k])) <= 1
            /\ stages[StageOrder[k]] = "rejected" =>
                  /\ Done
                  /\ response.status # 200
                  /\ "customer_response" \notin DOMAIN response.body)
    /\ [][\A k \in 1..Len(StageOrder) :
            stages[StageOrder[k]] \in {"resolved", "rejected"} =>
                /\ stages'[StageOrder[k]] = stages[StageOrder[k]]
                /\ Cardinality(CallsTo(StageOrder[k])') = 1]_vars

C14_Witness ==
    /\ Done
    /\ stages.translation = "resolved"
    /\ stages.ml_service = "resolved"
    /\ stages.gemini = "rejected"
    /\ Len(calls) = 3
    /\ response.status = 503

\* C15: in every successful result total_processing_time_ms is at least each
\* of translation_processing_time_ms, ml_processing_time_ms and
\* llm_processing_time_ms, whatever the remote services report.
C15_TotalBoundsStages ==
    Done /\ response.status = 200 =>
        /\ response.body.total_processing_time_ms.value
              >= response.body.translation_processing_time_ms.value
        /\ response.body.total_processing_time_ms.value
              >= response.body.ml_processing_time_ms.value
        /\ response.body.total_processing_time_ms.value
              >= response.body.llm_processing_time_ms.value

\* api-response.ts:8-37: the fields of LLMJudgeSuccessResponse
SuccessFields ==
    {"ticket_id", "ticket_text",
     "ml_cluster", "ml_urgency", "ml_priority", "ml_confidence", "ml_auto_escalate",
     "llm_ml_valid", "llm_confidence_assessment", "llm_issue_category", "llm_reasoning",
     "llm_recommended_action", "llm_tone", "customer_response",
     "translation_processing_time_ms", "ml_processing_time_ms",
     "llm_processing_time_ms", "total_processing_time_ms", "timestamp"}

\* C16: a successful response is a flat record holding every field of the
\* PipelineResult; llm_issue_category is present and equals the judgment's
\* issue_category, and no field holds an object or an array.
C16_FlatAndComplete ==
    Done /\ response.status = 200 =>
        /\ DOMAIN response.body = SuccessFields
        /\ response.body.llm_issue_category = llmResult.judgment.issue_category
        /\ \A f \in DOMAIN response.body :
              response.body[f].type \notin {"object", "array"}

\* C17: every error response of the endpoint, the 405 answer to an unsupported
\* method included, carries an error_stage among validation, translation,
\* ml_service, gemini and processing, together with a message.
C17_ErrorsCarryStage ==
    Done /\ response.status # 200 =>
        /\ "error_stage" \in DOMAIN response.body
        /\ \E stage \in ErrorStages : response.body.error_stage = Str(stage)
        /\ "error_message" \in DOMAIN response.body
        /\ response.body.error_message.type = "string"

\* C18: a translation that comes back empty or malformed ends the run with a
\* translation-stage error: the translation stage resolves only with a
\* non-empty string, and predict is never called with the empty text.
C18_EmptyTranslationRejected ==
    /\ stages.translation = "resolved" =>
          /\ translationResult.translatedText.type = "string"
          /\ translationResult.translatedText # Str("")
    /\ \A i \in CallsTo("ml_service") : calls[i].text # Str("")

\* C19: a judgment whose keywords hold an entry shorter than 2 or longer than
\* 50 characters, or the same entry twice, is rejected: an accepted judgment
\* has 5 to 10 keywords, each of 2 to 50 characters, all distinct.
C19_KeywordEntriesChecked ==
    llmResult # NoValue =>
        LET keywords == llmResult.judgment.keywords.items
        IN  /\ Len(keywords) >= 5
            /\ Len(keywords) <= 10
            /\ \A i \in DOMAIN keywords :
                  /\ Len(keywords[i].value) >= 2
                  /\ Len(keywords[i].value) <= 50
            /\ \A i, j \in DOMAIN keywords :
                  keywords[i] = keywords[j] => i = j

\* the body of a POST cannot be parsed, is not an object, has no string text,
\* or has a ticket_id that is not a string
BadShape ==
    /\ method = "POST"
    /\ \/ body.type # "object"
       \/ body.text.type # "string"
       \/ body.ticket_id.type \notin {"undefined", "string"}

\* C20: a request whose body has a bad shape is answered 400 with error_stage
\* validation, never 500 and never a dependency error.
C20_BadShapeIs400 ==
    Done /\ BadShape =>
        /\ response.status = 400
        /\ response.body.error_stage = Str("validation")
        /\ calls = <<>>

\* C24: predict is called with exactly the translated text of this request's
\* translation; judgeAndRespond is called with the request's text, that
\* translated text and this request's prediction; the ticket_text of a
\* successful response is the request's text as it was sent.
C24_StagesReceiveTheirInputs ==
    /\ \A i \in DOMAIN calls :
          /\ calls[i].stage = "translation" => calls[i].text = Field(body, "text")
          /\ calls[i].stage = "ml_service" =>
                /\ stages.translation = "resolved"
                /\ calls[i].text = translationResult.translatedText
          /\ calls[i].stage = "gemini" =>
                /\ stages.ml_service = "resolved"
                /\ calls[i].originalText = Field(body, "text")
                /\ calls[i].translatedText = translationResult.translatedText
                /\ calls[i].mlPrediction = mlResponse.prediction
    /\ Done /\ method = "POST" /\ response.status = 200 =>
          response.body.ticket_text = Field(body, "text")

\* a request whose text has surrounding blanks went through all three stages
C24_Witness ==
    /\ Done
    /\ response.status = 200
    /\ Field(body, "text").pad > 0
    /\ \E i \in DOMAIN calls : calls[i].stage = "gemini"
    /\ translationResult.translatedText # Field(body, "text")

\* how far an invocation has come
Position(p) ==
    CASE p = "idle" -> 0 [] p = "received" -> 1 [] p = "translating" -> 2
      [] p = "classifying" -> 3 [] p = "judging" -> 4 [] p = "done" -> 5

\* C25: when every remote call settles, every invocation returns a response;
\* the handler only moves forward, and it makes at most the three remote calls,
\* each stage once.
C25_EveryInvocationReturns ==
    /\ <>(Done /\ response # NoValue)
    /\ [][pc' # pc => Position(pc') > Position(pc)]_vars
    /\ [](/\ Len(calls) <= Len(StageOrder)
          /\ \A i, j \in DOMAIN calls : calls[i].stage = calls[j].stage => i = j)

\* an invocation that waited for all three remote calls has returned
C25_Witness ==
    /\ Done
    /\ response # NoValue
    /\ Len(calls) = Len(StageOrder)
    /\ stages.gemini \in {"resolved", "rejected"}
    /\ datastore.mode = "hang"

----------------------------------------------------------------------------
(* Keyword extraction: extractKeywordsAndPhrases of @/lib/keyword-extraction,
   modelled from spec.md 4.7 step 2.  A text is the sequence of its
   whitespace-separated words. *)

\* supabase-client.ts:96-98, the options saveTicketResult passes
maxKeywords == 7
maxBigrams == 3
minLength == 3

Stopwords == {"saya", "yang", "dan"}

\* lower-casing and punctuation stripping of the words that occur in SinkTexts
NormalForm ==
    ("Internet" :> "internet") @@ ("MATI" :> "mati") @@ ("total," :> "total") @@
    ("Saya" :> "saya") @@ ("!!" :> "")

Normalise(w) == IF w \in DOMAIN NormalForm THEN NormalForm[w] ELSE w

\* variant: the stopword list is not applied
Tokenize_KeepsStopwords(words) ==
    SelectSeq([i \in DOMAIN words |-> Normalise(words[i])],
              LAMBDA t : Len(t) >= minLength)

\* the tokens that survive the length and stopword filters, in text order
Tokenize(words) ==
    SelectSeq([i \in DOMAIN words |-> Normalise(words[i])],
              LAMBDA t : Len(t) >= minLength /\ t \notin Stopwords)

\* adjacent pairs of surviving tokens
Bigrams(tokens) ==
    [i \in 1..(Len(tokens) - 1) |-> tokens[i] \o " " \o tokens[i + 1]]

Frequency(items, t) == Cardinality({i \in DOMAIN items : items[i] = t})

FirstOccurrence(items, t) ==
    CHOOSE i \in DOMAIN items : items[i] = t /\ \A j \in 1..(i - 1) : items[j] # t

\* the n most frequent items, ties broken by first occurrence
TopN(items, n) ==
    LET D == {items[i] : i \in DOMAIN items}
        Before(a, b) ==
            \/ Frequency(items, a) > Frequency(items, b)
            \/ /\ Frequency(items, a) = Frequency(items, b)
               /\ FirstOccurrence(items, a) < FirstOccurrence(items, b)
        Rank(t) == Cardinality({u \in D : Before(u, t)})
        Size == IF Cardinality(D) < n THEN Cardinality(D) ELSE n
    IN  [k \in 1..Size |->
            LET t == CHOOSE t \in D : Rank(t) = k - 1
            IN  [keyword |-> t, frequency |-> Frequency(items, t)]]

extractKeywordsAndPhrases(text) ==
    LET tokens == Tokenize(text)
    IN  TopN(tokens, maxKeywords) \o TopN(Bigrams(tokens), maxBigrams)

----------------------------------------------------------------------------
(* saveTicketResult, supabase-client.ts:67-142, one action per continuation *)

SinkTexts ==
    { <<"Internet", "MATI", "total,", "internet", "mati", "di", "rumah", "Saya">>,
      <<"di", "!!">>,
      <<"wifi", "lambat", "sekali", "sejak", "kemarin", "tolong", "segera",
        "perbaiki", "modem">> }

\* the fields of a TicketResultRow that saveTicketResult reads (supabase-client.ts:24-57)
SinkRows ==
    {[ticket_id |-> Str("TKT-12345"), ticket_text |-> t,
      ml_cluster |-> 1, llm_issue_category |-> "network"] : t \in SinkTexts}

\* "flaky": each request to the datastore may succeed or fail
SinkDatastoreModes == DatastoreModes \cup {"flaky"}

\* how one request to the datastore can settle: resolved with data, resolved
\* with an error object, or rejected; none while the datastore hangs
InsertOutcomes(mode) ==
    CASE mode = "ok" -> {"ok"}
      [] mode = "fail" -> {"error", "throw"}
      [] mode = "flaky" -> {"ok", "error", "throw"}
      [] OTHER -> {}

\* calls of saveTicketResult in one behaviour, one after the other
MaxSaves == 2

\* a result row stored earlier, so that generated identifiers are not all 1
EarlierRow == [id |-> 1, ticket_id |-> Str("TKT-00001"), ticket_text |-> <<"halo">>]

SinkInit ==
    /\ pc = "idle"
    /\ method = "POST"
    /\ origin = "http"
    /\ body = NoValue
    /\ clock = 0
    /\ pipelineStartTime = 0
    /\ startTime = 0
    /\ calls = <<>>
    /\ stages = [translation |-> "idle", ml_service |-> "idle", gemini |-> "idle"]
    /\ translationResult = NoValue
    /\ mlResponse = NoValue
    /\ llmResult = NoValue
    /\ response = NoValue
    /\ thrown = FALSE
    /\ chat = NoValue
    /\ datastore \in {[mode |-> m, ticket_results |-> r, ticket_keywords |-> <<>>] :
                        m \in SinkDatastoreModes, r \in {<<>>, <<EarlierRow>>}}
    /\ sink = [state |-> "idle", saves |-> 0]
    /\ invocations = NoValue
    /\ container = NoValue
    /\ analytics = NoValue

\* supabase-client.ts:67-74: the call, up to the await of the result-row insert
saveTicketResult(data) ==
    /\ sink.state \in {"idle", "resolved", "rejected"}
    /\ sink.saves < MaxSaves
    /\ sink' = [state |-> "inserting_result", saves |-> sink.saves + 1, data |-> data,
                requests |-> <<[table |-> "ticket_results", rows |-> <<data>>]>>,
                extractions |-> 0, ticketResultId |-> NoValue,
                keywordRows |-> <<>>, errors |-> <<>>]
    /\ UNCHANGED <<invocations, container, analytics,
                   pc, method, origin, body, clock, pipelineStartTime, startTime, calls, stages,
                   translationResult, mlResponse, llmResult, response, thrown,
                   datastore, chat>>

\* variant: an insert error is logged but not thrown, so the keyword step runs without an id
ResultInsertFailed_Continues(outcome) ==
    /\ outcome \in {"error", "throw"}
    /\ LET keywords == extractKeywordsAndPhrases(sink.data.ticket_text)
           keywordRows == [i \in DOMAIN keywords |->
                              [ticket_result_id |-> 0,
                               keyword |-> keywords[i].keyword,
                               frequency |-> keywords[i].frequency]]
       IN  sink' = [sink EXCEPT
                      !.state = "inserting_keywords",
                      !.extractions = @ + 1,
                      !.keywordRows = keywordRows,
                      !.errors = <<"Failed to save ticket result">>,
                      !.requests = Append(@, [table |-> "ticket_keywords",
                                              rows |-> keywordRows])]
    /\ UNCHANGED datastore

\* supabase-client.ts:76-82 and 135-141: the insert failed
ResultInsertFailed(outcome) ==
    /\ outcome \in {"error", "throw"}
    /\ sink' = [sink EXCEPT
                  !.state = "rejected",
                  !.errors = IF outcome = "error"
                             THEN <<"Failed to save ticket result", "Database save error">>
                             ELSE <<"Database save error">>]
    /\ UNCHANGED datastore

\* supabase-client.ts:84-134: the insert returned an id; keywords are extracted,
\* and a non-empty list is sent to ticket_keywords
ResultInsertSucceeded(outcome, extractionThrows) ==
    /\ outcome = "ok"
    /\ LET ticketResultId == Len(datastore.ticket_results) + 1
           keywords == extractKeywordsAndPhrases(sink.data.ticket_text)
           keywordRows == [i \in DOMAIN keywords |->
                              [ticket_result_id |-> ticketResultId,
                               keyword |-> keywords[i].keyword,
                               frequency |-> keywords[i].frequency]]
       IN  /\ datastore' = [datastore EXCEPT
                 !.ticket_results = Append(@, [id |-> ticketResultId,
                                               ticket_id |-> sink.data.ticket_id,
                                               ticket_text |-> sink.data.ticket_text])]
           /\ sink' = IF extractionThrows
                      THEN [sink EXCEPT !.state = "resolved",
                                        !.ticketResultId = Num(ticketResultId),
                                        !.extractions = @ + 1,
                                        !.errors = Append(@, "Keyword extraction failed")]
                      ELSE IF Len(keywords) > 0
                      THEN [sink EXCEPT !.state = "inserting_keywords",
                                        !.ticketResultId = Num(ticketResultId),
                                        !.extractions = @ + 1,
                                        !.keywordRows = keywordRows,
                                        !.requests = Append(@, [table |-> "ticket_keywords",
                                                                rows |-> keywordRows])]
                      ELSE [sink EXCEPT !.state = "resolved",
                                        !.ticketResultId = Num(ticketResultId),
                                        !.extractions = @ + 1]

\* the insert into ticket_results has settled
saveTicketResult_ResultSettled(outcome, extractionThrows) ==
    /\ sink.state = "inserting_result"
    /\ outcome \in InsertOutcomes(datastore.mode)
    /\ \/ ResultInsertFailed(outcome)
       \/ ResultInsertSucceeded(outcome, extractionThrows)
    /\ UNCHANGED <<invocations, container, analytics,
                   pc, method, origin, body, clock, pipelineStartTime, startTime, calls, stages,
                   translationResult, mlResponse, llmResult, response, thrown, chat>>

\* variant: a keyword insert failure is thrown on to the outer catch
saveTicketResult_KeywordsSettled_Rethrows(outcome) ==
    /\ sink.state = "inserting_keywords"
    /\ outcome \in InsertOutcomes(datastore.mode)
    /\ datastore' = IF outcome = "ok"
                    THEN [datastore EXCEPT !.ticket_keywords = @ \o sink.keywordRows]
                    ELSE datastore
    /\ sink' = [sink EXCEPT
                  !.state = IF outcome = "ok" THEN "resolved" ELSE "rejected",
                  !.errors = IF outcome = "ok" THEN @ ELSE Append(@, "Database save error")]
    /\ UNCHANGED <<invocations, container, analytics,
                   pc, method, origin, body, clock, pipelineStartTime, startTime, calls, stages,
                   translationResult, mlResponse, llmResult, response, thrown, chat>>

\* supabase-client.ts:109-134: the insert into ticket_keywords has settled
saveTicketResult_KeywordsSettled(outcome) ==
    /\ sink.state = "inserting_keywords"
    /\ outcome \in InsertOutcomes(datastore.mode)
    /\ datastore' = IF outcome = "ok"
                    THEN [datastore EXCEPT !.ticket_keywords = @ \o sink.keywordRows]
                    ELSE datastore
    /\ sink' = [sink EXCEPT
                  !.state = "resolved",
                  !.errors = CASE outcome = "error" -> Append(@, "Failed to save keywords")
                               [] outcome = "throw" -> Append(@, "Keyword extraction failed")
                               [] OTHER -> @]
    /\ UNCHANGED <<invocations, container, analytics,
                   pc, method, origin, body, clock, pipelineStartTime, startTime, calls, stages,
                   translationResult, mlResponse, llmResult, response, thrown, chat>>

SinkOutcomes == {"ok", "error", "throw"}

SinkNext ==
    \/ \E data \in SinkRows : saveTicketResult(data)
    \/ \E outcome \in SinkOutcomes, extractionThrows \in BOOLEAN :
          saveTicketResult_ResultSettled(outcome, extractionThrows)
    \/ \E outcome \in SinkOutcomes : saveTicketResult_KeywordsSettled(outcome)

SinkSpec == SinkInit /\ [][SinkNext]_vars


----------------------------------------------------------------------------
(* Properties of saveTicketResult, checked under SinkSpec *)

SinkStarted == sink.state # "idle"

SinkSettled == sink.state \in {"resolved", "rejected"}

\* the requests the running call has sent to ticket_keywords
KeywordRequests ==
    {i \in DOMAIN sink.requests : sink.requests[i].table = "ticket_keywords"}

\* the stored result row with the given id
StoredResult(id) ==
    {i \in DOMAIN datastore.ticket_results : datastore.ticket_results[i].id = id}

\* C11: keyword rows are sent only after the result-row insert has returned its
\* id, every keyword row carries that id, and a failed result-row insert is
\* followed by no keyword extraction and no keyword insert.
C11_KeywordsAfterParent ==
    /\ \A k \in DOMAIN datastore.ticket_keywords :
          StoredResult(datastore.ticket_keywords[k].ticket_result_id) # {}
    /\ SinkStarted =>
          /\ \A i \in KeywordRequests :
                /\ i > 1
                /\ sink.requests[1].table = "ticket_results"
                /\ sink.ticketResultId # NoValue
                /\ StoredResult(sink.ticketResultId.value) # {}
                /\ \A r \in DOMAIN sink.requests[i].rows :
                      sink.requests[i].rows[r].ticket_result_id = sink.ticketResultId.value
          /\ sink.extractions > 0 => sink.ticketResultId # NoValue
          /\ SinkSettled /\ sink.ticketResultId = NoValue =>
                /\ sink.extractions = 0
                /\ KeywordRequests = {}

C11_Witness ==
    /\ sink.state = "resolved"
    /\ sink.saves = MaxSaves
    /\ sink.ticketResultId # NoValue
    /\ sink.ticketResultId.value > 1
    /\ KeywordRequests # {}
    /\ \E k \in DOMAIN datastore.ticket_keywords :
          datastore.ticket_keywords[k].ticket_result_id = sink.ticketResultId.value

\* C12: when the result-row insert fails, the failure is logged, the insert is
\* not sent again, and saveTicketResult completes without throwing or rejecting.
C12_InsertFailureNotSurfaced ==
    SinkSettled /\ sink.ticketResultId = NoValue =>
        /\ sink.errors # <<>>
        /\ Len(sink.requests) = 1
        /\ sink.state = "resolved"

\* C13: once the result row is inserted, a failure of keyword extraction or of
\* the keyword insert is logged and swallowed: saveTicketResult resolves, and
\* stored result rows are never changed or removed.
C13_KeywordFailuresSwallowed ==
    /\ [](SinkStarted /\ sink.ticketResultId # NoValue =>
            /\ sink.state # "rejected"
            /\ StoredResult(sink.ticketResultId.value) # {})
    /\ [][/\ Len(datastore'.ticket_results) >= Len(datastore.ticket_results)
          /\ SubSeq(datastore'.ticket_results, 1, Len(datastore.ticket_results))
                = datastore.ticket_results
          /\ sink.state = "inserting_result" /\ sink'.state = "resolved"
             /\ extractKeywordsAndPhrases(sink.data.ticket_text) # <<>> =>
                sink'.errors = Append(sink.errors, "Keyword extraction failed")
          /\ sink.state = "inserting_keywords" /\ sink'.state # "inserting_keywords"
             /\ datastore'.ticket_keywords = datastore.ticket_keywords =>
                /\ sink'.state = "resolved"
                /\ Len(sink'.errors) = Len(sink.errors) + 1]_vars

C13_Witness ==
    /\ sink.state = "resolved"
    /\ sink.ticketResultId # NoValue
    /\ KeywordRequests # {}
    /\ sink.errors # <<>>
    /\ \A k \in DOMAIN datastore.ticket_keywords :
          datastore.ticket_keywords[k].ticket_result_id # sink.ticketResultId.value


\* the normalised words of a text that are long enough and not stopwords
SalientWords(text) ==
    {t \in {Normalise(text[i]) : i \in DOMAIN text} :
        Len(t) >= minLength /\ t \notin Stopwords}

\* the keywords stored for the result row with the given id, in order
StoredKeywords(id) ==
    LET rows == SelectSeq(datastore.ticket_keywords, LAMBDA r : r.ticket_result_id = id)
    IN  [k \in DOMAIN rows |-> [keyword |-> rows[k].keyword, frequency |-> rows[k].frequency]]

----------------------------------------------------------------------------
(* Two POST invocations in one process, route.ts:47-185.  The handler and the
   clients keep everything in const/let locals; each invocation's locals live
   in its own activation frame. *)

Invocations == {"a", "b"}

\* variant: the locals are hoisted to module scope, one frame for all invocations
Frame_ModuleScope(i) == "a"

\* the frame that holds the locals of invocation i
Frame(i) == i

ConcBodies ==
    {Obj(Text(0, 1), Str("TKT-12345")), Obj(Text(1, 1), Undef), Obj(Text(0, 0), Undef)}

ConcTranslationReplies ==
    {[kind |-> "resolve", translation_text |-> t] :
        t \in {Str("Internet is completely down"), Str("The bill is wrong")}}

ConcMLReplies ==
    {[kind |-> "reject"],
     [kind |-> "resolve", cluster |-> 3, confidence |-> 99, processing_time_ms |-> Num(15)]}

ConcGeminiReplies ==
    {[kind |-> "resolve", text |-> GarbageText],
     [kind |-> "resolve", text |-> JsonText(Judgment(TRUE, "escalate", MinKeywords))]}

EmptyFrame ==
    [pipelineStartTime |-> 0, startTime |-> 0, data |-> NoValue,
     translationResult |-> NoValue, mlResponse |-> NoValue]

IdleExceptClock ==
    /\ pc = "idle"
    /\ method = "POST"
    /\ origin = "http"
    /\ body = NoValue
    /\ pipelineStartTime = 0
    /\ startTime = 0
    /\ calls = <<>>
    /\ stages = [translation |-> "idle", ml_service |-> "idle", gemini |-> "idle"]
    /\ translationResult = NoValue
    /\ mlResponse = NoValue
    /\ llmResult = NoValue
    /\ response = NoValue
    /\ thrown = FALSE
    /\ chat = NoValue
    /\ datastore = [mode |-> "ok", ticket_results |-> <<>>, ticket_keywords |-> <<>>]
    /\ sink = [state |-> "idle"]

singleVars ==
    <<pc, method, origin, body, pipelineStartTime, startTime, calls, stages,
      translationResult, mlResponse, llmResult, response, thrown, datastore, sink, chat>>

ConcInit ==
    /\ IdleExceptClock
    /\ clock = 0
    /\ container = NoValue
    /\ analytics = NoValue
    /\ invocations \in
          {[control |-> [i \in Invocations |->
                            [pc |-> "received", body |-> bodies[i], response |-> NoValue,
                             replies |-> <<>>, times |-> <<>>]],
            frame |-> [i \in Invocations |-> EmptyFrame]] :
              bodies \in [Invocations -> ConcBodies]}

\* what invocation i does with its control record c and the frame f of its locals
Conc_Update(i, c, f) ==
    /\ invocations' = [invocations EXCEPT !.control[i] = c,
                                          !.frame[Frame(i)] = f]
    /\ UNCHANGED <<singleVars, container, analytics>>

\* route.ts:48-74, POST up to the await of translateToEnglish
Conc_Validate(i) ==
    LET c == invocations.control[i]
        f == invocations.frame[Frame(i)]
        validation == validateRequest(c.body)
    IN  /\ c.pc = "received"
        /\ UNCHANGED clock
        /\ IF ~validation.valid
           THEN Conc_Update(i, [c EXCEPT !.pc = "done", !.times = <<clock>>,
                                         !.response = ValidationError(validation.error, clock)],
                            [f EXCEPT !.pipelineStartTime = clock])
           ELSE Conc_Update(i, [c EXCEPT !.pc = "translating", !.times = <<clock>>],
                            [f EXCEPT !.pipelineStartTime = clock, !.startTime = clock,
                                      !.data = validation.data])

\* route.ts:76-95
Conc_Translated(i, reply, d) ==
    LET c == invocations.control[i]
        f == invocations.frame[Frame(i)]
        r == translateToEnglish(reply, f.startTime, clock')
        seen == [c EXCEPT !.replies = Append(@, reply), !.times = Append(@, clock')]
    IN  /\ c.pc = "translating"
        /\ clock' = clock + d
        /\ IF ~r.ok
           THEN Conc_Update(i, [seen EXCEPT !.pc = "done",
                                            !.response = TranslationError(r.message, clock')], f)
           ELSE Conc_Update(i, [seen EXCEPT !.pc = "classifying"],
                            [f EXCEPT !.translationResult = r.value])

\* route.ts:97-116
Conc_Classified(i, reply, d) ==
    LET c == invocations.control[i]
        f == invocations.frame[Frame(i)]
        r == predict(reply)
        seen == [c EXCEPT !.replies = Append(@, reply), !.times = Append(@, clock')]
    IN  /\ c.pc = "classifying"
        /\ clock' = clock + d
        /\ IF ~r.ok
           THEN Conc_Update(i, [seen EXCEPT !.pc = "done",
                                            !.response = MLServiceError(r.message, clock')], f)
           ELSE Conc_Update(i, [seen EXCEPT !.pc = "judging"],
                            [f EXCEPT !.mlResponse = r.value, !.startTime = clock'])

\* route.ts:118-168
Conc_Judged(i, reply, d) ==
    LET c == invocations.control[i]
        f == invocations.frame[Frame(i)]
        r == judgeAndRespond(reply, f.startTime, clock')
        seen == [c EXCEPT !.replies = Append(@, reply), !.times = Append(@, clock'),
                          !.pc = "done"]
    IN  /\ c.pc = "judging"
        /\ clock' = clock + d
        /\ IF ~r.ok
           THEN Conc_Update(i, [seen EXCEPT !.response = GeminiError(r.message, clock')], f)
           ELSE Conc_Update(i, [seen EXCEPT !.response =
                                   SuccessResponse(f.data.text, f.data.ticket_id,
                                                   f.translationResult, f.mlResponse, r.value,
                                                   f.pipelineStartTime, clock')], f)

ConcNext ==
    \E i \in Invocations :
        \/ Conc_Validate(i)
        \/ \E reply \in ConcTranslationReplies, d \in Ticks : Conc_Translated(i, reply, d)
        \/ \E reply \in ConcMLReplies, d \in Ticks : Conc_Classified(i, reply, d)
        \/ \E reply \in ConcGeminiReplies, d \in Ticks : Conc_Judged(i, reply, d)

ConcSpec == ConcInit /\ [][ConcNext]_vars

\* the response POST gives to a request, as a function of the request body, the
\* replies to its own three calls and its own clock readings
ResponseOf(c) ==
    LET validation == validateRequest(c.body)
    IN  IF ~validation.valid THEN ValidationError(validation.error, c.times[1])
        ELSE LET tr == translateToEnglish(c.replies[1], c.times[1], c.times[2])
             IN  IF ~tr.ok THEN TranslationError(tr.message, c.times[2])
                 ELSE LET ml == predict(c.replies[2])
                      IN  IF ~ml.ok THEN MLServiceError(ml.message, c.times[3])
                          ELSE LET llm == judgeAndRespond(c.replies[3], c.times[3], c.times[4])
                               IN  IF ~llm.ok THEN GeminiError(llm.message, c.times[4])
                                   ELSE SuccessResponse(validation.data.text,
                                                        validation.data.ticket_id,
                                                        tr.value, ml.value, llm.value,
                                                        c.times[1], c.times[4])

\* C21: of two interleaved invocations, each one's response is determined by
\* its own request body, the replies to its own calls and its own clock
\* readings; nothing the other invocation wrote enters it.
C21_InvocationsIsolated ==
    \A i \in Invocations :
        invocations.control[i].pc = "done" =>
            invocations.control[i].response = ResponseOf(invocations.control[i])

\* both invocations succeeded, interleaved, on different requests and replies
C21_Witness ==
    /\ \A i \in Invocations :
          /\ invocations.control[i].pc = "done"
          /\ invocations.control[i].response.status = 200
    /\ invocations.control["a"].body # invocations.control["b"].body
    /\ invocations.control["a"].replies # invocations.control["b"].replies
    /\ invocations.control["a"].times[1] < invocations.control["b"].times[4]
    /\ invocations.control["b"].times[1] < invocations.control["a"].times[4]


----------------------------------------------------------------------------
(* The chat UI: ChatInput (chat-input.tsx), ChatContainer (chat-container.tsx),
   MessageBubble (message-bubble.tsx) and sendChatMessage *)

\* chat-input.tsx: const MAX_LENGTH = 10000
MAX_LENGTH == 10000

\* user messages created in one behaviour, by the input or by a retry
MaxSends == 3

\* text.trim()
Trim(t) == Text(0, t.core)

\* variant: the length is checked on the trimmed text but the raw text is sent
handleSend_SendsRaw(text, disabled) ==
    IF TrimLength(text) = 0 \/ disabled \/ TextLength(Trim(text)) > MAX_LENGTH
    THEN NoValue
    ELSE text

\* ChatInput.handleSend: what is handed to onSend, NoValue if nothing is sent
handleSend(text, disabled) ==
    IF TrimLength(text) = 0 \/ disabled \/ TextLength(Trim(text)) > MAX_LENGTH
    THEN NoValue
    ELSE Trim(text)

\* what the user may have typed when pressing send
TypedTexts ==
    {Text(p, c) : p \in Pads, c \in {0, MaxTextLength, MaxTextLength + Slack}}

\* sendChatMessage: the body of the fetch
ChatRequest(text) == Obj(text, Str("uuid"))

\* a 200 answer of POST /api/llm-judge to a chat request
ChatSuccess(text, cluster, action) ==
    SuccessResponse(text, Str("uuid"),
                    [translatedText |-> Str("Internet is completely down"),
                     processingTimeMs |-> 0],
                    predict([kind |-> "resolve", cluster |-> cluster, confidence |-> 99,
                             processing_time_ms |-> Num(15)]).value,
                    [judgment |-> llmJudgmentSchemaParse(
                                      Judgment(TRUE, action, MinKeywords)).value,
                     processingTimeMs |-> 0],
                    0, 0)

\* the same answer with ml_urgency and ml_priority left out
WithoutUrgency(r) ==
    [r EXCEPT !.body = [f \in DOMAIN r.body \ {"ml_urgency", "ml_priority"} |-> r.body[f]]]

\* the same answer with ml_urgency and ml_priority empty
WithEmptyUrgency(r) ==
    [r EXCEPT !.body.ml_urgency = Str(""), !.body.ml_priority = Str("")]

\* how the fetch of sendChatMessage can settle for a request body: a network
\* failure, or an answer of POST (400 only for a body validateRequest rejects)
FetchReplies(b) ==
    IF ~validateRequest(b).valid
    THEN {[kind |-> "resolve",
           response |-> ValidationError(validateRequest(b).error, 0)]}
    ELSE {[kind |-> "reject"]}
            \cup {[kind |-> "resolve", response |-> r] :
                    r \in {TranslationError("Translation failed", 0),
                           MLServiceError("ML service request failed", 0),
                           GeminiError("Gemini request failed", 0),
                           InternalError(0),
                           ChatSuccess(b.text, 1, "standard"),
                           ChatSuccess(b.text, 3, "escalate"),
                           WithoutUrgency(ChatSuccess(b.text, 3, "escalate")),
                           WithEmptyUrgency(ChatSuccess(b.text, 3, "escalate"))}}

\* sendChatMessage, supabase-client.ts:185-234, for a settled fetch
sendChatMessage(reply) ==
    IF reply.kind = "reject"
    THEN [state |-> "thrown", message |-> "Failed to fetch"]
    ELSE sendChatMessageResult(reply.response)

\* MessageBubble: the retry button is rendered (onRetry is always passed)
RetryOffered(message) ==
    /\ message.status = "error"
    /\ ~Falsy(message.error)

ChatInit ==
    /\ IdleExceptClock
    /\ clock = 0
    /\ invocations = NoValue
    /\ analytics = NoValue
    /\ container = [messages |-> <<>>, isLoading |-> FALSE, inflight |-> {},
                    created |-> 0, last |-> NoValue]

\* chat-container.tsx handleSendMessage up to the await of sendChatMessage
StartSend(c, text) ==
    LET id == c.created + 1
    IN  [c EXCEPT
           !.messages = Append(@, [id |-> id, role |-> "user", content |-> text,
                                   status |-> "sending", error |-> Undef]),
           !.isLoading = TRUE,
           !.inflight = @ \cup {[id |-> id, body |-> ChatRequest(text)]},
           !.created = id]

\* the user presses send in ChatInput with the given text typed
ChatInput_handleSend(text) ==
    /\ container.created < MaxSends
    /\ handleSend(text, container.isLoading) # NoValue
    /\ container' = StartSend(container, handleSend(text, container.isLoading))
    /\ UNCHANGED <<singleVars, clock, invocations, analytics>>


\* the messages with the status and error of message id replaced
WithStatus(messages, id, status, error) ==
    [k \in DOMAIN messages |->
        IF messages[k].id = id
        THEN [messages[k] EXCEPT !.status = status, !.error = error]
        ELSE messages[k]]

\* the error of message id, Undef when the message is gone
ErrorOf(messages, id) ==
    IF \E k \in DOMAIN messages : messages[k].id = id
    THEN (CHOOSE m \in {messages[k] : k \in DOMAIN messages} : m.id = id).error
    ELSE Undef

\* variant: a failed call leaves the user message as it was
Settle_IgnoresFailure(c, call, reply) ==
    LET result == sendChatMessage(reply)
        settled == [c EXCEPT !.isLoading = FALSE, !.inflight = @ \ {call},
                             !.last = [id |-> call.id, reply |-> reply, result |-> result]]
    IN  IF result.state = "returned"
        THEN [settled EXCEPT !.messages =
                 Append(WithStatus(@, call.id, "sent", ErrorOf(@, call.id)),
                        [id |-> 0 - call.id, role |-> "assistant",
                         content |-> result.value, status |-> "sent", error |-> Undef])]
        ELSE settled

\* chat-container.tsx handleSendMessage after the await: try, catch and finally
Settle(c, call, reply) ==
    LET result == sendChatMessage(reply)
        settled == [c EXCEPT !.isLoading = FALSE, !.inflight = @ \ {call},
                             !.last = [id |-> call.id, reply |-> reply, result |-> result]]
    IN  IF result.state = "returned"
        THEN [settled EXCEPT !.messages =
                 Append(WithStatus(@, call.id, "sent", ErrorOf(@, call.id)),
                        [id |-> 0 - call.id, role |-> "assistant",
                         content |-> result.value, status |-> "sent", error |-> Undef])]
        ELSE [settled EXCEPT !.messages =
                 WithStatus(@, call.id, "error", Str(result.message))]

\* sendChatMessage has settled for one of the calls in flight
handleSendMessage_Settled(call, reply) ==
    /\ call \in container.inflight
    /\ reply \in FetchReplies(call.body)
    /\ container' = Settle(container, call, reply)
    /\ UNCHANGED <<singleVars, clock, invocations, analytics>>

\* the user presses "Coba Lagi" on a message: chat-container.tsx handleRetry
handleRetry(messageId) ==
    /\ container.created < MaxSends
    /\ \E k \in DOMAIN container.messages :
          /\ container.messages[k].id = messageId
          /\ RetryOffered(container.messages[k])
          /\ container' =
                StartSend([container EXCEPT !.messages =
                              SelectSeq(@, LAMBDA m : m.id # messageId)],
                          container.messages[k].content)
    /\ UNCHANGED <<singleVars, clock, invocations, analytics>>

\* chat-container.tsx handleClearChat
handleClearChat ==
    /\ container.messages # <<>>
    /\ container' = [container EXCEPT !.messages = <<>>]
    /\ UNCHANGED <<singleVars, clock, invocations, analytics>>

ChatNext ==
    \/ \E text \in TypedTexts : ChatInput_handleSend(text)
    \/ \E call \in container.inflight :
          \E reply \in FetchReplies(call.body) : handleSendMessage_Settled(call, reply)
    \/ \E messageId \in 1..MaxSends : handleRetry(messageId)
    \/ handleClearChat

ChatSpec == ChatInit /\ [][ChatNext]_vars


----------------------------------------------------------------------------
(* Properties of the chat UI, checked under ChatSpec *)

\* the error texts of the failures of a dependency: the three remote stages
\* and the network between the browser and the endpoint
DependencyFailureTexts ==
    {Str(ErrorMessages.translation), Str(ErrorMessages.ml_service),
     Str(ErrorMessages.gemini), Str("Failed to fetch")}

\* C22: a failed request is shown with the localized message of its
\* error_stage, and the retry button is offered only on failures of a
\* dependency (translation, ml_service, gemini), never on other failures.
C22_RetryOnlyForDependencyFailures ==
    /\ container.last # NoValue /\ container.last.reply.kind = "resolve"
       /\ container.last.reply.response.status # 200 =>
          /\ container.last.result.state = "thrown"
          /\ container.last.result.message =
                ErrorMessages[container.last.reply.response.body.error_stage.value]
    /\ \A k \in DOMAIN container.messages :
          RetryOffered(container.messages[k]) =>
              container.messages[k].error \in DependencyFailureTexts


\* the escalation fields of the last settled call agree with the answer's
\* ml_urgency and ml_priority, the defaults standing in for a field that is
\* absent (onlyAbsent) or falsy
EscalationFollows(onlyAbsent) ==
    LET fallsBack(v) == IF onlyAbsent THEN v = Undef ELSE Falsy(v)
        data == container.last.reply.response.body
        escalation == container.last.result.value.escalation
    IN  escalation # Undef =>
            /\ escalation.triggered
            /\ escalation.urgency = IF fallsBack(Get(data, "ml_urgency")) THEN Str("High")
                                    ELSE data.ml_urgency
            /\ escalation.priority = IF fallsBack(Get(data, "ml_priority")) THEN Str("P1")
                                     ELSE data.ml_priority

\* sendChatMessage throws on a failed fetch, on an answer that is not ok and on
\* a body with an error field, and returns the body's customer_response otherwise
ThrowsOrReturns ==
    LET reply == container.last.reply
        result == container.last.result
    IN  IF reply.kind = "reject" \/ ~ResponseOk(reply.response)
           \/ "error" \in DOMAIN reply.response.body
        THEN result.state = "thrown"
        ELSE /\ result.state = "returned"
             /\ result.value.response = reply.response.body.customer_response

\* C26: sendChatMessage throws when the answer is not ok or carries an error
\* field and returns customer_response otherwise; the urgency and priority of a
\* triggered escalation are ml_urgency and ml_priority, High and P1 standing in
\* only when the fields are absent.
C26_FallbackOnlyWhenAbsent ==
    container.last # NoValue =>
        /\ ThrowsOrReturns
        /\ container.last.result.state = "returned" =>
              EscalationFollows(TRUE)

\* C26, amended: High and P1 stand in whenever ml_urgency or ml_priority is
\* absent or falsy (the empty string included).
C26_FallbackWhenFalsy ==
    container.last # NoValue =>
        /\ ThrowsOrReturns
        /\ container.last.result.state = "returned" =>
              EscalationFollows(FALSE)

\* an escalated answer with an empty ml_urgency came back with urgency High
C26_Witness ==
    /\ container.last # NoValue
    /\ container.last.reply.kind = "resolve"
    /\ container.last.result.state = "returned"
    /\ Get(container.last.reply.response.body, "ml_urgency") = Str("")
    /\ container.last.result.value.escalation # Undef
    /\ container.last.result.value.escalation.urgency = Str("High")

\* C27: isLoading is true in every state in which a sendChatMessage call
\* started by handleSendMessage has not completed.
C27_LoadingWhileInFlight ==
    container # NoValue /\ container.inflight # {} => container.isLoading

\* the messages of the given role
MessagesOf(c, role) == SelectSeq(c.messages, LAMBDA m : m.role = role)

\* C28: a user message is in status sending from its creation until its call
\* completes, then sent when the call returned and error, with an error text,
\* when it threw; an assistant message is appended exactly when the call
\* returned; no message goes back to sending.
C28_MessageLifecycle ==
    /\ [](\A k \in DOMAIN container.messages :
            LET message == container.messages[k]
            IN  /\ message.status = "sending" <=>
                      \E call \in container.inflight : call.id = message.id
                /\ message.status = "error" => ~Falsy(message.error))
    /\ [][LET before == container.messages
              after == container'.messages
          IN  /\ \A i \in DOMAIN before, j \in DOMAIN after :
                    before[i].id = after[j].id /\ before[i].status # "sending" =>
                        after[j].status = before[i].status
              /\ \A j \in DOMAIN after :
                    (\A i \in DOMAIN before : before[i].id # after[j].id)
                        /\ after[j].role = "user" => after[j].status = "sending"
              /\ container'.inflight # container.inflight
                    /\ container'.inflight \subseteq container.inflight =>
                    LET id == container'.last.id
                        returned == container'.last.result.state = "returned"
                    IN  /\ \A j \in DOMAIN after : after[j].id = id =>
                              after[j].status = IF returned THEN "sent" ELSE "error"
                        /\ Len(MessagesOf(container', "assistant")) =
                              Len(MessagesOf(container, "assistant"))
                                  + (IF returned THEN 1 ELSE 0)
                        /\ MessagesOf(container', "user") =
                              WithStatus(MessagesOf(container, "user"), id,
                                         IF returned THEN "sent" ELSE "error",
                                         ErrorOf(after, id))]_vars

\* one message failed and kept its error text, another was answered
C28_Witness ==
    /\ \E k \in DOMAIN container.messages :
          /\ container.messages[k].status = "error"
          /\ container.messages[k].error = Str(ErrorMessages.gemini)
    /\ \E k \in DOMAIN container.messages :
          /\ container.messages[k].status = "sent"
          /\ container.messages[k].role = "user"
          /\ k < Len(container.messages)
          /\ container.messages[k + 1].role = "assistant"
    /\ container.inflight = {}

\* C29: every request that sendChatMessage posts for a message handed over by
\* ChatInput passes validateRequest, and no call ends in a validation error.
C29_InputPassesValidation ==
    /\ \A call \in container.inflight : validateRequest(call.body).valid
    /\ container.last # NoValue /\ container.last.reply.kind = "resolve" =>
          /\ container.last.reply.response.status # 400
          /\ container.last.result.state = "thrown" =>
                container.last.result.message # ErrorMessages.validation

\* a message of exactly the maximum length is on its way to the endpoint
C29_Witness ==
    \E call \in container.inflight :
        /\ TextLength(Field(call.body, "text")) = MAX_LENGTH
        /\ Field(call.body, "ticket_id").type = "string"

----------------------------------------------------------------------------
(* The analytics endpoint: GET /api/analytics, part_006:46-109.  A query      *)
(* parameter is Null when it is not given, else a string: period strings are  *)
(* kept as their leading integer (NoDigits when there is none) and the rest.  *)

NoDigits == [type |-> "none"]
NaN == [type |-> "number", nan |-> TRUE]

PeriodText(lead, rest) == [type |-> "string", lead |-> lead, rest |-> rest]

PeriodParams ==
    {Null}
        \cup {PeriodText(NoDigits, rest) : rest \in {"", "abc"}}
        \cup {PeriodText(Num(n), rest) :
                n \in {0 - 1, 0, 1, 30, 365, 366}, rest \in {"", ".5", "abc"}}

MetricParams ==
    {Null} \cup {Str(t) : t \in {"", "summary", "trends", "performance", "keywords", "volume"}}

\* parseInt(string, 10): the leading integer of the string, NaN when there is none
parseInt(param) == IF param.lead = NoDigits THEN NaN ELSE param.lead

\* searchParams.get(name) || fallback: null and the empty string are falsy
ParamOrElse(param, fallback) ==
    IF param = Null \/ param = Str("") \/ param = PeriodText(NoDigits, "")
    THEN fallback ELSE param

\* the table each metric function reads, part_006:114-330
MetricTable ==
    [summary |-> "ticket_results", trends |-> "ticket_results",
     performance |-> "ticket_results", keywords |-> "ticket_keywords"]

\* how the datastore answers a query: an error, or the number of rows it returns
QueryOutcomes == {[error |-> TRUE]} \cup {[error |-> FALSE, rows |-> n] : n \in 0..2}

AnalyticsInit ==
    /\ IdleExceptClock
    /\ clock = 0
    /\ invocations = NoValue
    /\ container = NoValue
    /\ analytics = [pc |-> "idle", periodParam |-> NoValue, metricParam |-> NoValue,
                    period |-> NoValue, metric |-> NoValue,
                    queries |-> <<>>, response |-> NoValue]

\* part_006:46-84: the parameters are read and checked, and the metric function
\* is called.  NaN fails neither comparison of the period check; the metric
\* function then throws a RangeError from toISOString of an invalid date while
\* the arguments of the query are built, which the catch turns into a 500.
analytics_GET(periodParam, metricParam) ==
    /\ analytics.pc = "idle"
    /\ LET period == parseInt(ParamOrElse(periodParam, PeriodText(Num(7), "")))
           metric == ParamOrElse(metricParam, Str("summary")).value
           request == [analytics EXCEPT !.periodParam = periodParam,
                                        !.metricParam = metricParam,
                                        !.period = period, !.metric = metric]
       IN  analytics' =
             IF period # NaN /\ (period.value < 1 \/ period.value > 365)
             THEN [request EXCEPT !.pc = "done",
                     !.response = [status |-> 400,
                                   body |-> [error |-> "Invalid period. Must be between 1 and 365 days."]]]
             ELSE IF metric \notin DOMAIN MetricTable
             THEN [request EXCEPT !.pc = "done",
                     !.response = [status |-> 400,
                                   body |-> [error |-> "Invalid metric. Must be: summary, trends, performance, or keywords."]]]
             ELSE IF period = NaN
             THEN [request EXCEPT !.pc = "done",
                     !.response = [status |-> 500,
                                   body |-> [error |-> "Failed to fetch analytics data",
                                             message |-> "Invalid time value"]]]
             ELSE [request EXCEPT !.pc = "querying",
                     !.queries = Append(@, [table |-> MetricTable[metric], days |-> period])]
    /\ UNCHANGED <<singleVars, clock, invocations, container>>

\* part_006:86-108: the query has settled; its rows are aggregated and returned
\* with period_days, or the error is thrown and caught
analytics_QuerySettled(outcome) ==
    /\ analytics.pc = "querying"
    /\ analytics' =
          [analytics EXCEPT !.pc = "done",
             !.response =
                IF outcome.error
                THEN [status |-> 500,
                      body |-> [error |-> "Failed to fetch analytics data",
                                message |-> "Database query failed"]]
                ELSE [status |-> 200,
                      body |-> [metric |-> analytics.metric, rows |-> outcome.rows,
                                period_days |-> analytics.period]]]
    /\ UNCHANGED <<singleVars, clock, invocations, container>>

AnalyticsNext ==
    \/ \E periodParam \in PeriodParams, metricParam \in MetricParams :
          analytics_GET(periodParam, metricParam)
    \/ \E outcome \in QueryOutcomes : analytics_QuerySettled(outcome)

AnalyticsSpec == AnalyticsInit /\ [][AnalyticsNext]_vars

\* the period parameter is left out, or it is an integer between 1 and 365
PeriodAcceptable(param) ==
    \/ ParamOrElse(param, NoValue) = NoValue
    \/ /\ param.rest = ""
       /\ param.lead # NoDigits
       /\ param.lead.value >= 1 /\ param.lead.value <= 365

\* the metric parameter is left out, or it names one of the four metrics
MetricAcceptable(param) ==
    \/ ParamOrElse(param, NoValue) = NoValue
    \/ param.value \in DOMAIN MetricTable

\* C30: a request whose period is not an integer between 1 and 365, or whose
\* metric is none of summary, trends, performance and keywords, is answered
\* with 400 and no query is sent to the datastore.
C30_InvalidAnalyticsRequestsRejected ==
    analytics.pc # "idle"
        /\ ~(PeriodAcceptable(analytics.periodParam)
                /\ MetricAcceptable(analytics.metricParam)) =>
            /\ analytics.pc = "done"
            /\ analytics.response.status = 400
            /\ analytics.queries = <<>>

====
